---- MODULE Spec2Model ----
(***************************************************************************)
(* Inbound-event dispatch and streaming-session lifecycle of the Orca SEO   *)
(* agent: lambda_handler.handler / send_message and main.process_message / *)
(* _stream_completion.                                                     *)
(*                                                                         *)
(* The collaborators that are not part of the repository are environment:  *)
(*   - the Completion Source (AsyncOpenAI) answers a request or refuses    *)
(*     it, then yields chunks one await at a time and ends or fails;       *)
(*   - a Streaming Session (orca.begin) is the log of the calls made on    *)
(*     it; a call is logged when it is made, whether it returns or raises; *)
(*   - the queue (boto3 sqs) accepts or rejects a publish.                 *)
(***************************************************************************)
EXTENDS Integers, Sequences, FiniteSets, TLC

\* ---------------------------------------------------------------- bounds
\* records in one batch
MaxRecords == 2
\* chunks the Completion Source produces for one exchange run on its own
MaxFrags == 3
\* chunks the Completion Source produces during one handler invocation
MaxHandlerFrags == 1
\* session calls that raise in one run
MaxFaults == 1
\* process_message coroutines
NumTasks == 2
\* chunks the Completion Source produces, over all exchanges, while they run
\* concurrently
MaxConcurrentFrags == 3

\* ---------------------------------------------------------------- values
Tasks == 1..NumTasks
HandlerTask == 1

RIds == {"r1", "r2"}

\* A ChatMessage: the response correlation identifier and the
\* OPENAI_API_KEY entry of its variables ("" when it carries none).
Messages == [response_uuid : RIds, api_key : {"", "k1"}]
NoMessage == [response_uuid |-> "", api_key |-> ""]

\* JSON text is a sequence of tokens: "{" key value key value ... "}".
model_dump_json(data) ==
    <<"{", "response_uuid", data.response_uuid, "OPENAI_API_KEY", data.api_key, "}">>

JsonWellFormed(text) ==
    /\ Len(text) >= 2
    /\ text[1] = "{"
    /\ text[Len(text)] = "}"
    /\ (Len(text) - 2) % 2 = 0

\* json.loads: the key/value pairs of the object, in order.
json_loads(text) ==
    [i \in 1..((Len(text) - 2) \div 2) |-> <<text[2 * i], text[2 * i + 1]>>]

HasKey(obj, k) == \E i \in 1..Len(obj) : obj[i][1] = k
\* the last occurrence of a key wins, as in a Python dict
Lookup(obj, k) ==
    obj[CHOOSE i \in 1..Len(obj) :
            /\ obj[i][1] = k
            /\ \A j \in (i + 1)..Len(obj) : obj[j][1] # k][2]

\* ChatMessage(**body): response_uuid is required, variables are optional.
ChatMessageValid(obj) == HasKey(obj, "response_uuid")
ChatMessage(obj) ==
    [response_uuid |-> Lookup(obj, "response_uuid"),
     api_key |-> IF HasKey(obj, "OPENAI_API_KEY") THEN Lookup(obj, "OPENAI_API_KEY") ELSE ""]

\* whether json.loads(record["body"]) and ChatMessage(**body) both succeed
Deserializable(hasBody, text) ==
    /\ hasBody
    /\ JsonWellFormed(text)
    /\ ChatMessageValid(json_loads(text))

\* The bodies the envelopes carry: truncated JSON, an object without
\* response_uuid, a message without a key of its own and one with a key.
BadBodies == { <<"{">>, <<"{", "OPENAI_API_KEY", "k1", "}">> }
EnvelopeMessages ==
    { [response_uuid |-> "r1", api_key |-> ""], [response_uuid |-> "r2", api_key |-> "k1"] }
Bodies == BadBodies \cup { model_dump_json(m) : m \in EnvelopeMessages }

\* One record of event["Records"]; hasBody = FALSE is a record without "body".
\* A record that does not come from the queue carries a well-formed message.
Records ==
    [eventSource : {"aws:sqs"}, hasBody : {TRUE}, body : Bodies]
    \cup [eventSource : {"aws:sqs"}, hasBody : {FALSE}, body : {<<>>}]
    \cup [eventSource : {"other"}, hasBody : {TRUE},
          body : {model_dump_json([response_uuid |-> "r1", api_key |-> ""])}]

RecordSeqs == UNION { [1..n -> Records] : n \in 1..MaxRecords }

\* The HTTP part of the event as Mangum and FastAPI see it; route "none" is
\* an event without the fields of an HTTP request.
NoHttp == [route |-> "none", body |-> <<>>]
HttpParts ==
    [route : {"send_message"}, body : Bodies]
    \cup [route : {"health"}, body : {<<>>}]
    \cup {NoHttp}

\* The envelopes: an event that carries records (from a queue or from another
\* service) has no HTTP fields, and when it also carries the "source" tag it
\* has one record; an event without records, or with an empty list of them,
\* may be an HTTP request and may carry the "source" tag.
\* shape "ok": event["Records"], when present, is a list of mappings.
Events ==
    [shape : {"ok"}, hasRecords : {TRUE}, Records : RecordSeqs, source : {""}, http : {NoHttp}]
    \cup [shape : {"ok"}, hasRecords : {TRUE}, Records : [1..1 -> Records],
          source : {"aws.events"}, http : {NoHttp}]
    \cup [shape : {"ok"}, hasRecords : {TRUE, FALSE}, Records : {<<>>},
          source : {"aws.events", ""}, http : HttpParts]

\* The envelopes whose "Records" entry is present and is not a list of
\* mappings: a value without a length (a number, null), on which
\* len(event["Records"]) raises TypeError, or a non-empty list whose first
\* element is not a mapping (a string), on which first.get raises
\* AttributeError. What else they carry is never looked at.
MalformedEvents ==
    [shape : {"records_not_sequence", "first_not_mapping"}, hasRecords : {TRUE},
     Records : {<<>>}, source : {"aws.events", ""},
     http : {NoHttp, [route |-> "health", body |-> <<>>]}]

AllEvents == Events \cup MalformedEvents

\* A chunk of the completion stream: chunk.choices[0].delta.content.
NoneChunk == [isNone |-> TRUE, content |-> ""]
Chunks == {NoneChunk} \cup [isNone : {FALSE}, content : {"", "a", "b"}]

\* The chunk the Completion Source produces during a handler invocation (the
\* contents of the chunks vary in the runs of process_message on its own).
HandlerChunks == {[isNone |-> FALSE, content |-> "a"]}

\* The chunks the Completion Source produces while exchanges run
\* concurrently: the n-th chunk over all exchanges is empty or carries a
\* fragment that no other chunk carries.
FragmentNames == <<"f1", "f2", "f3", "f4", "f5">>
ConcurrentChunks(n) ==
    {[isNone |-> FALSE, content |-> ""], [isNone |-> FALSE, content |-> FragmentNames[n]]}

\* delta = chunk.choices[0].delta.content or ""
Delta(chunk) == IF chunk.isNone \/ chunk.content = "" THEN "" ELSE chunk.content

\* api_key = get_variable_value(data.variables, "OPENAI_API_KEY") or os.getenv("OPENAI_API_KEY")
ResolveApiKey(data, env) == IF data.api_key # "" THEN data.api_key ELSE env

\* Acknowledgments
NoRet == [kind |-> "none", statusCode |-> 0, status |-> "", response_uuid |-> ""]
Ack200 == [kind |-> "ack", statusCode |-> 200, status |-> "", response_uuid |-> ""]
HttpRet(code, status, rid) ==
    [kind |-> "http", statusCode |-> code, status |-> status, response_uuid |-> rid]
Raised == [kind |-> "raised", statusCode |-> 0, status |-> "", response_uuid |-> ""]

IdleTask ==
    [pc |-> "idle", data |-> NoMessage, comp |-> 0, delta |-> "",
     sessA |-> 0, sessB |-> 0, exc |-> FALSE, result |-> "none"]
NewTask(data) == [IdleTask EXCEPT !.pc = "start", !.data = data]

\* ---------------------------------------------------------------- state
VARIABLES
    event,        \* the inbound envelope
    queue_url,    \* what send_message read from SQS_QUEUE_URL ("" when unset)
    env_key,      \* os.getenv("OPENAI_API_KEY"), "" when unset
    sessFaults,   \* whether session calls can raise in this run
    hpc,          \* position of handler
    idx,          \* position of the batch loop in event["Records"]
    mode,         \* the branch handler took
    ret,          \* what handler returned
    sm,           \* how send_message ended
    outcomes,     \* per record handled so far: how its loop body ended
    publishCalls, \* bodies passed to sqs send_message, in call order
    queue,        \* bodies the queue accepted
    completions,  \* the Completion Source's log, one entry per request
    sessions,     \* the sessions orca.begin returned, in creation order
    tasks         \* the process_message coroutines

vars == <<event, queue_url, env_key, sessFaults, hpc, idx, mode, ret, sm,
          outcomes, publishCalls, queue, completions, sessions, tasks>>

config == <<event, env_key, sessFaults>>
handlerVars == <<queue_url, hpc, idx, mode, ret, sm, outcomes, publishCalls, queue>>

NoEvent ==
    [shape |-> "ok", hasRecords |-> FALSE, Records |-> <<>>, source |-> "", http |-> NoHttp]

InitLogs ==
    /\ idx = 0
    /\ mode = "none"
    /\ ret = NoRet
    /\ sm = "none"
    /\ outcomes = <<>>
    /\ publishCalls = <<>>
    /\ queue = <<>>
    /\ completions = <<>>
    /\ sessions = <<>>

\* handler is invoked with an envelope
InitHandler ==
    /\ event \in Events
    /\ queue_url = "unread"
    /\ env_key \in {"", "k2"}
    /\ hpc = "start"
    /\ tasks = [t \in Tasks |-> IdleTask]
    /\ InitLogs

\* process_message is invoked on its own with one message
InitProcess ==
    /\ event = NoEvent
    /\ queue_url = "unread"
    /\ env_key \in {"", "k2"}
    /\ hpc = "off"
    /\ \E data \in Messages :
         tasks = [t \in Tasks |-> IF t = HandlerTask THEN NewTask(data) ELSE IdleTask]
    /\ InitLogs

\* handler is invoked with any envelope, malformed ones included
InitAnyEnvelope ==
    /\ event \in AllEvents
    /\ queue_url = "unread"
    /\ env_key \in {"", "k2"}
    /\ hpc = "start"
    /\ tasks = [t \in Tasks |-> IdleTask]
    /\ InitLogs

\* The two tasks whose exchanges run at the same time, and the response
\* correlation identifiers of their messages.
ConcurrentTasks == {HandlerTask, HandlerTask + 1}
ConcurrentRids == <<"r1", "r2">>

\* process_message is invoked in two tasks, for exchanges with different
\* response_uuids; the tasks run on one event loop and take turns at their
\* awaits.
InitConcurrent ==
    /\ event = NoEvent
    /\ queue_url = "unread"
    /\ env_key = ""
    /\ sessFaults = FALSE
    /\ hpc = "concurrent"
    /\ \E keys \in [ConcurrentTasks -> {"", "k1"}] :
         tasks = [t \in Tasks |->
                     IF t \in ConcurrentTasks
                     THEN NewTask([response_uuid |-> ConcurrentRids[t], api_key |-> keys[t]])
                     ELSE IdleTask]
    /\ InitLogs

Init == InitHandler /\ sessFaults = FALSE
InitEnvelopes == InitAnyEnvelope /\ sessFaults = FALSE
InitFaults == InitHandler /\ sessFaults = TRUE
InitPM == InitProcess /\ sessFaults = FALSE
InitPMFaults == InitProcess /\ sessFaults = TRUE

\* ------------------------------------------------------------ environment
RECURSIVE CountRaised(_)
CountRaised(calls) ==
    IF calls = <<>> THEN 0
    ELSE (IF Head(calls).ok THEN 0 ELSE 1) + CountRaised(Tail(calls))
RECURSIVE SumRaised(_)
SumRaised(ss) == IF ss = <<>> THEN 0 ELSE CountRaised(Head(ss).calls) + SumRaised(Tail(ss))
\* session calls that have raised in this run
FaultsUsed == SumRaised(sessions)

\* How a session call can end: it returns (TRUE) or raises (FALSE).
CallOutcomes == IF sessFaults /\ FaultsUsed < MaxFaults THEN {TRUE, FALSE} ELSE {TRUE}

\* orca.begin(data): a new session for data.response_uuid
Begin(ss, data) == Append(ss, [rid |-> data.response_uuid, calls |-> <<>>])

\* a call made on session s, which returned (ok) or raised
Call(s, op, arg, ok) ==
    [sessions EXCEPT ![s].calls = Append(@, [op |-> op, arg |-> arg, ok |-> ok])]

RECURSIVE SumLen(_)
SumLen(cs) == IF cs = <<>> THEN 0 ELSE Len(Head(cs).emitted) + SumLen(Tail(cs))
\* chunks the Completion Source has produced in this run, over all requests
FragsUsed == SumLen(completions)
FragLimit ==
    IF hpc = "off" THEN MaxFrags
    ELSE IF hpc = "concurrent" THEN MaxConcurrentFrags
    ELSE MaxHandlerFrags
ChunkChoices ==
    IF hpc = "off" THEN Chunks
    ELSE IF hpc = "concurrent" THEN ConcurrentChunks(FragsUsed + 1)
    ELSE HandlerChunks

SetTask(t, rec) == [tasks EXCEPT ![t] = rec]

\* --------------------------------------------- main.py: process_message
\* process_message's except branch up to its first await: the exception is
\* caught, a new session is opened for the same message and session.error is
\* handed to a thread.
EnterExceptBranch(rec, ss) ==
    [rec EXCEPT !.pc = "B_error", !.sessB = Len(ss) + 1]

\* PM_Start without "if not api_key: raise": the completion is requested
\* with whatever was resolved
PM_Start_NoCredentialCheck(t) ==
    /\ tasks[t].pc = "start"
    /\ completions' = Append(completions,
          [api_key |-> ResolveApiKey(tasks[t].data, env_key), status |-> "requested",
           emitted |-> <<>>])
    /\ tasks' = SetTask(t, [tasks[t] EXCEPT !.pc = "creating", !.comp = Len(completions) + 1])
    /\ UNCHANGED <<config, handlerVars, sessions>>

\* process_message is entered; _stream_completion resolves the credential
\* and, when there is one, requests the completion.
PM_Start(t) ==
    /\ tasks[t].pc = "start"
    /\ LET data == tasks[t].data
           api_key == ResolveApiKey(data, env_key)
       IN IF api_key = ""
          THEN \* raise ValueError, caught by process_message
               /\ sessions' = Begin(sessions, data)
               /\ tasks' = SetTask(t, EnterExceptBranch(tasks[t], sessions))
               /\ UNCHANGED completions
          ELSE /\ completions' = Append(completions,
                     [api_key |-> api_key, status |-> "requested", emitted |-> <<>>])
               /\ tasks' = SetTask(t, [tasks[t] EXCEPT !.pc = "creating",
                                                       !.comp = Len(completions) + 1])
               /\ UNCHANGED sessions
    /\ UNCHANGED <<config, handlerVars>>

\* await openai_client.chat.completions.create(...) answers: with a stream,
\* and the session is opened, or with a failure, which process_message catches.
PM_Created(t) ==
    /\ tasks[t].pc = "creating"
    /\ \E ok \in BOOLEAN :
         IF ok
         THEN /\ completions' = [completions EXCEPT ![tasks[t].comp].status = "streaming"]
              /\ sessions' = Begin(sessions, tasks[t].data)
              /\ tasks' = SetTask(t, [tasks[t] EXCEPT !.pc = "streaming",
                                                      !.sessA = Len(sessions) + 1])
         ELSE /\ completions' = [completions EXCEPT ![tasks[t].comp].status = "refused"]
              /\ sessions' = Begin(sessions, tasks[t].data)
              /\ tasks' = SetTask(t, EnterExceptBranch(tasks[t], sessions))
    /\ UNCHANGED <<config, handlerVars>>

\* PM_Chunk without "if not delta: continue": every delta is forwarded
PM_Chunk_ForwardEmpty(t) ==
    /\ tasks[t].pc = "streaming"
    /\ FragsUsed < FragLimit
    /\ \E chunk \in ChunkChoices :
         /\ completions' = [completions EXCEPT ![tasks[t].comp].emitted = Append(@, chunk)]
         /\ tasks' = SetTask(t, [tasks[t] EXCEPT !.pc = "A_stream", !.delta = Delta(chunk)])
    /\ UNCHANGED <<config, handlerVars, sessions>>

\* async for chunk in stream: one chunk arrives; an empty delta is skipped,
\* a non-empty one is handed to session.stream in a thread.
PM_Chunk(t) ==
    /\ tasks[t].pc = "streaming"
    /\ FragsUsed < FragLimit
    /\ \E chunk \in ChunkChoices :
         LET delta == Delta(chunk)
         IN /\ completions' = [completions EXCEPT ![tasks[t].comp].emitted = Append(@, chunk)]
            /\ IF delta = ""
               THEN tasks' = tasks
               ELSE tasks' = SetTask(t, [tasks[t] EXCEPT !.pc = "A_stream", !.delta = delta])
    /\ UNCHANGED <<config, handlerVars, sessions>>

\* PM_StreamEnd without the close of the success path: _stream_completion
\* returns when the stream is exhausted
PM_StreamEnd_NoClose(t) ==
    /\ tasks[t].pc = "streaming"
    /\ completions' = [completions EXCEPT ![tasks[t].comp].status = "ended"]
    /\ tasks' = SetTask(t, [tasks[t] EXCEPT !.pc = "done", !.result = "returned"])
    /\ UNCHANGED <<config, handlerVars, sessions>>

\* the stream is exhausted: session.close is handed to a thread
PM_StreamEnd(t) ==
    /\ tasks[t].pc = "streaming"
    /\ completions' = [completions EXCEPT ![tasks[t].comp].status = "ended"]
    /\ tasks' = SetTask(t, [tasks[t] EXCEPT !.pc = "A_close"])
    /\ UNCHANGED <<config, handlerVars, sessions>>

\* the stream raises instead of yielding: _stream_completion's except branch
PM_StreamFail(t) ==
    /\ tasks[t].pc = "streaming"
    /\ completions' = [completions EXCEPT ![tasks[t].comp].status = "failed"]
    /\ tasks' = SetTask(t, [tasks[t] EXCEPT !.pc = "A_error"])
    /\ UNCHANGED <<config, handlerVars, sessions>>

\* PM_SessionStream with the session kept in a module-level variable that
\* every exchange assigns: the fragment goes to the session opened last
PM_SessionStream_SharedSession(t) ==
    /\ tasks[t].pc = "A_stream"
    /\ \E ok \in CallOutcomes :
         /\ sessions' = Call(Len(sessions), "stream", tasks[t].delta, ok)
         /\ tasks' = SetTask(t, [tasks[t] EXCEPT !.pc = IF ok THEN "streaming" ELSE "A_error",
                                                 !.delta = ""])
    /\ UNCHANGED <<config, handlerVars, completions>>

\* await asyncio.to_thread(session.stream, delta)
PM_SessionStream(t) ==
    /\ tasks[t].pc = "A_stream"
    /\ \E ok \in CallOutcomes :
         /\ sessions' = Call(tasks[t].sessA, "stream", tasks[t].delta, ok)
         /\ tasks' = SetTask(t, [tasks[t] EXCEPT !.pc = IF ok THEN "streaming" ELSE "A_error",
                                                 !.delta = ""])
    /\ UNCHANGED <<config, handlerVars, completions>>

\* await asyncio.to_thread(session.close) on the success path
PM_SessionClose(t) ==
    /\ tasks[t].pc = "A_close"
    /\ \E ok \in CallOutcomes :
         /\ sessions' = Call(tasks[t].sessA, "close", "", ok)
         /\ tasks' = SetTask(t, IF ok
                                THEN [tasks[t] EXCEPT !.pc = "done", !.result = "returned"]
                                ELSE [tasks[t] EXCEPT !.pc = "A_error"])
    /\ UNCHANGED <<config, handlerVars, completions>>

\* PM_StreamError without the session.error call: the except branch only
\* closes the session and re-raises
PM_StreamError_NoError(t) ==
    /\ tasks[t].pc = "A_error"
    /\ tasks' = SetTask(t, [tasks[t] EXCEPT !.pc = "A_close2"])
    /\ UNCHANGED <<config, handlerVars, completions, sessions>>

\* _stream_completion's except branch: session.error; when the call raises,
\* the new exception leaves _stream_completion and process_message catches it.
PM_StreamError(t) ==
    /\ tasks[t].pc = "A_error"
    /\ \E ok \in CallOutcomes :
         LET logged == Call(tasks[t].sessA, "error", "An error occurred during streaming", ok)
         IN IF ok
            THEN /\ sessions' = logged
                 /\ tasks' = SetTask(t, [tasks[t] EXCEPT !.pc = "A_close2"])
            ELSE /\ sessions' = Begin(logged, tasks[t].data)
                 /\ tasks' = SetTask(t, EnterExceptBranch(tasks[t], logged))
    /\ UNCHANGED <<config, handlerVars, completions>>

\* _stream_completion's except branch: session.close, then raise; the
\* exception reaches process_message, which catches it.
PM_StreamErrorClose(t) ==
    /\ tasks[t].pc = "A_close2"
    /\ \E ok \in CallOutcomes :
         LET logged == Call(tasks[t].sessA, "close", "", ok)
         IN /\ sessions' = Begin(logged, tasks[t].data)
            /\ tasks' = SetTask(t, EnterExceptBranch(tasks[t], logged))
    /\ UNCHANGED <<config, handlerVars, completions>>

\* PM_Error without the finally: when session.error raises, the exception
\* leaves process_message and session.close is not called
PM_Error_NoFinally(t) ==
    /\ tasks[t].pc = "B_error"
    /\ \E ok \in CallOutcomes :
         /\ sessions' = Call(tasks[t].sessB, "error",
                             "An error occurred while generating the response.", ok)
         /\ tasks' = SetTask(t, IF ok
                                THEN [tasks[t] EXCEPT !.pc = "B_close"]
                                ELSE [tasks[t] EXCEPT !.pc = "done", !.exc = TRUE,
                                                      !.result = "raised"])
    /\ UNCHANGED <<config, handlerVars, completions>>

\* process_message's except branch: session.error inside try/finally
PM_Error(t) ==
    /\ tasks[t].pc = "B_error"
    /\ \E ok \in CallOutcomes :
         /\ sessions' = Call(tasks[t].sessB, "error",
                             "An error occurred while generating the response.", ok)
         /\ tasks' = SetTask(t, [tasks[t] EXCEPT !.pc = "B_close", !.exc = ~ok])
    /\ UNCHANGED <<config, handlerVars, completions>>

\* process_message's finally: session.close; process_message then returns,
\* unless session.error or session.close raised.
PM_ErrorClose(t) ==
    /\ tasks[t].pc = "B_close"
    /\ \E ok \in CallOutcomes :
         /\ sessions' = Call(tasks[t].sessB, "close", "", ok)
         /\ tasks' = SetTask(t, [tasks[t] EXCEPT
                                   !.pc = "done",
                                   !.result = IF ok /\ ~tasks[t].exc THEN "returned" ELSE "raised"])
    /\ UNCHANGED <<config, handlerVars, completions>>

\* The task is cancelled while it awaits the Completion Source (the answer to
\* the request, or the next chunk): CancelledError is raised at the await. It
\* is a BaseException, so neither "except Exception" catches it and it leaves
\* _stream_completion and process_message; the task is over.
PM_Cancel(t) ==
    /\ tasks[t].pc \in {"creating", "streaming"}
    /\ completions' = [completions EXCEPT ![tasks[t].comp].status = "cancelled"]
    /\ tasks' = SetTask(t, [tasks[t] EXCEPT !.pc = "done", !.result = "cancelled"])
    /\ UNCHANGED <<config, handlerVars, sessions>>

PMNext ==
    \E t \in Tasks :
       \/ PM_Start(t)
       \/ PM_Created(t)
       \/ PM_Chunk(t)
       \/ PM_StreamEnd(t)
       \/ PM_StreamFail(t)
       \/ PM_SessionStream(t)
       \/ PM_SessionClose(t)
       \/ PM_StreamError(t)
       \/ PM_StreamErrorClose(t)
       \/ PM_Error(t)
       \/ PM_ErrorClose(t)

\* process_message in a task that can be cancelled
PMCancelNext == PMNext \/ \E t \in Tasks : PM_Cancel(t)

\* ------------------------------------------- lambda_handler.py: handler
\* Classify with the scheduled check ahead of the records check
Classify_CronFirst(ev) ==
    IF ev.source = "aws.events"
    THEN "cron"
    ELSE IF ev.shape # "ok"
         THEN "raise"
         ELSE IF ev.hasRecords /\ Len(ev.Records) > 0 /\ ev.Records[1].eventSource = "aws:sqs"
              THEN "sqs"
              ELSE "http"

\* Classify looking for a queue record anywhere in the records
Classify_AnyRecord(ev) ==
    IF ev.shape # "ok"
    THEN "raise"
    ELSE IF ev.hasRecords /\ (\E i \in 1..Len(ev.Records) : ev.Records[i].eventSource = "aws:sqs")
         THEN "sqs"
         ELSE IF ev.source = "aws.events"
              THEN "cron"
              ELSE "http"

\* The branch handler takes, by first match; "raise" when looking at
\* event["Records"] raises, which nothing in handler catches.
Classify(ev) ==
    IF ev.shape # "ok"
    THEN "raise"
    ELSE IF ev.hasRecords /\ Len(ev.Records) > 0 /\ ev.Records[1].eventSource = "aws:sqs"
         THEN "sqs"
         ELSE IF ev.source = "aws.events"
              THEN "cron"
              ELSE "http"

\* HandlerEntry without the return of the cron branch: a scheduled event is
\* logged and then forwarded to Mangum
HandlerEntry_CronFallsThrough ==
    /\ hpc = "start"
    /\ mode' = Classify(event)
    /\ IF mode' = "sqs"
       THEN /\ hpc' = "batch"
            /\ idx' = 1
            /\ ret' = ret
       ELSE IF mode' = "raise"
            THEN /\ hpc' = "done"
                 /\ ret' = Raised
                 /\ idx' = idx
            ELSE /\ hpc' = "http"
                 /\ UNCHANGED <<idx, ret>>
    /\ UNCHANGED <<config, queue_url, sm, outcomes, publishCalls, queue, completions, sessions, tasks>>

\* handler is entered and picks its branch; the cron branch returns at once,
\* and an exception raised while looking at the records leaves handler.
HandlerEntry ==
    /\ hpc = "start"
    /\ mode' = Classify(event)
    /\ IF mode' = "sqs"
       THEN /\ hpc' = "batch"
            /\ idx' = 1
            /\ ret' = ret
       ELSE IF mode' = "cron"
            THEN /\ hpc' = "done"
                 /\ ret' = Ack200
                 /\ idx' = idx
            ELSE IF mode' = "raise"
                 THEN /\ hpc' = "done"
                      /\ ret' = Raised
                      /\ idx' = idx
                 ELSE /\ hpc' = "http"
                      /\ UNCHANGED <<idx, ret>>
    /\ UNCHANGED <<config, queue_url, sm, outcomes, publishCalls, queue, completions, sessions, tasks>>

\* BatchRecordFails with the try around the loop: the first failure ends it
BatchRecordFails_Abort ==
    /\ hpc = "batch"
    /\ idx <= Len(event.Records)
    /\ ~Deserializable(event.Records[idx].hasBody, event.Records[idx].body)
    /\ outcomes' = Append(outcomes, "deser_error")
    /\ idx' = Len(event.Records) + 1
    /\ UNCHANGED <<config, queue_url, hpc, mode, ret, sm, publishCalls, queue, completions, sessions, tasks>>

\* BatchRecordFails reporting the failure to the client: a session is opened
\* for the record and gets error and close
BatchRecordFails_ReportsError ==
    /\ hpc = "batch"
    /\ idx <= Len(event.Records)
    /\ ~Deserializable(event.Records[idx].hasBody, event.Records[idx].body)
    /\ outcomes' = Append(outcomes, "deser_error")
    /\ idx' = idx + 1
    /\ sessions' = Append(sessions,
          [rid |-> "", calls |-> <<[op |-> "error", arg |-> "", ok |-> TRUE],
                                   [op |-> "close", arg |-> "", ok |-> TRUE]>>])
    /\ UNCHANGED <<config, queue_url, hpc, mode, ret, sm, publishCalls, queue, completions, tasks>>

\* for record in event["Records"]: json.loads(record["body"]) or
\* ChatMessage(**body) raises; the except branch logs it and the loop goes on.
BatchRecordFails ==
    /\ hpc = "batch"
    /\ idx <= Len(event.Records)
    /\ ~Deserializable(event.Records[idx].hasBody, event.Records[idx].body)
    /\ outcomes' = Append(outcomes, "deser_error")
    /\ idx' = idx + 1
    /\ UNCHANGED <<config, queue_url, hpc, mode, ret, sm, publishCalls, queue, completions, sessions, tasks>>

\* BatchRecordRun scheduling process_message as a background task instead of
\* running it to its end: the loop goes on to the next record at once
BatchRecordRun_NoWait ==
    /\ hpc = "batch"
    /\ idx <= Len(event.Records)
    /\ Deserializable(event.Records[idx].hasBody, event.Records[idx].body)
    /\ tasks' = SetTask(HandlerTask, NewTask(ChatMessage(json_loads(event.Records[idx].body))))
    /\ outcomes' = Append(outcomes, "returned")
    /\ idx' = idx + 1
    /\ UNCHANGED <<config, queue_url, hpc, mode, ret, sm, publishCalls, queue, completions, sessions>>

\* the record deserializes: asyncio.run(process_message(data)) starts
BatchRecordRun ==
    /\ hpc = "batch"
    /\ idx <= Len(event.Records)
    /\ Deserializable(event.Records[idx].hasBody, event.Records[idx].body)
    /\ tasks' = SetTask(HandlerTask, NewTask(ChatMessage(json_loads(event.Records[idx].body))))
    /\ hpc' = "batch_wait"
    /\ UNCHANGED <<config, queue_url, idx, mode, ret, sm, outcomes, publishCalls, queue, completions, sessions>>

\* asyncio.run(process_message(data)) is over: it returned, or it raised and
\* the except branch logged it; the loop goes on with the next record.
BatchRecordDone ==
    /\ hpc = "batch_wait"
    /\ tasks[HandlerTask].pc = "done"
    /\ outcomes' = Append(outcomes, tasks[HandlerTask].result)
    /\ idx' = idx + 1
    /\ hpc' = "batch"
    /\ UNCHANGED <<config, queue_url, mode, ret, sm, publishCalls, queue, completions, sessions, tasks>>

\* BatchReturn reporting the batch as failed when a record failed
BatchReturn_ReportFailure ==
    /\ hpc = "batch"
    /\ idx > Len(event.Records)
    /\ ret' = IF \A i \in 1..Len(outcomes) : outcomes[i] = "returned"
              THEN Ack200
              ELSE [Ack200 EXCEPT !.statusCode = 500]
    /\ hpc' = "done"
    /\ UNCHANGED <<config, queue_url, idx, mode, sm, outcomes, publishCalls, queue, completions, sessions, tasks>>

\* the loop is over: return {"statusCode": 200}
BatchReturn ==
    /\ hpc = "batch"
    /\ idx > Len(event.Records)
    /\ ret' = Ack200
    /\ hpc' = "done"
    /\ UNCHANGED <<config, queue_url, idx, mode, sm, outcomes, publishCalls, queue, completions, sessions, tasks>>

\* return mangum_handler(event, context) for an event that does not reach
\* send_message: Mangum cannot infer an HTTP request and raises, the health
\* route answers, or FastAPI rejects the body of a send_message request.
MangumOther ==
    /\ hpc = "http"
    /\ \/ /\ event.http.route = "none"
          /\ ret' = Raised
       \/ /\ event.http.route = "health"
          /\ ret' = HttpRet(200, "healthy", "")
       \/ /\ event.http.route = "send_message"
          /\ ~Deserializable(TRUE, event.http.body)
          /\ ret' = HttpRet(422, "", "")
    /\ hpc' = "done"
    /\ UNCHANGED <<config, queue_url, idx, mode, sm, outcomes, publishCalls, queue, completions, sessions, tasks>>

HttpData == ChatMessage(json_loads(event.http.body))

\* SendMessageQueued without the return after the publish: the message is
\* published and then processed inline as well
SendMessageQueued_FallThrough ==
    /\ hpc = "http"
    /\ event.http.route = "send_message"
    /\ Deserializable(TRUE, event.http.body)
    /\ queue_url' \in {"q1"}
    /\ publishCalls' = Append(publishCalls, model_dump_json(HttpData))
    /\ queue' = Append(queue, model_dump_json(HttpData))
    /\ tasks' = SetTask(HandlerTask, NewTask(HttpData))
    /\ hpc' = "http_wait"
    /\ UNCHANGED <<config, idx, mode, ret, sm, outcomes, completions, sessions>>

\* SendMessageQueued with the publish wrapped in try/except and the inline
\* path as its fallback: when the publish raises, process_message is awaited
SendMessageQueued_InlineFallback ==
    /\ hpc = "http"
    /\ event.http.route = "send_message"
    /\ Deserializable(TRUE, event.http.body)
    /\ queue_url' \in {"q1"}
    /\ publishCalls' = Append(publishCalls, model_dump_json(HttpData))
    /\ \E ok \in BOOLEAN :
         IF ok
         THEN /\ queue' = Append(queue, model_dump_json(HttpData))
              /\ sm' = "queued"
              /\ ret' = HttpRet(200, "queued", HttpData.response_uuid)
              /\ hpc' = "done"
              /\ tasks' = tasks
         ELSE /\ queue' = queue
              /\ tasks' = SetTask(HandlerTask, NewTask(HttpData))
              /\ hpc' = "http_wait"
              /\ UNCHANGED <<sm, ret>>
    /\ UNCHANGED <<config, idx, mode, outcomes, completions, sessions>>

\* send_message with SQS_QUEUE_URL set: publish, then answer "queued"; when
\* the publish raises, the request ends with the framework's 500 response.
SendMessageQueued ==
    /\ hpc = "http"
    /\ event.http.route = "send_message"
    /\ Deserializable(TRUE, event.http.body)
    /\ queue_url' \in {"q1"}
    /\ publishCalls' = Append(publishCalls, model_dump_json(HttpData))
    /\ \E ok \in BOOLEAN :
         IF ok
         THEN /\ queue' = Append(queue, model_dump_json(HttpData))
              /\ sm' = "queued"
              /\ ret' = HttpRet(200, "queued", HttpData.response_uuid)
         ELSE /\ queue' = queue
              /\ sm' = "raised"
              /\ ret' = HttpRet(500, "", "")
    /\ hpc' = "done"
    /\ UNCHANGED <<config, idx, mode, outcomes, completions, sessions, tasks>>

\* SendMessageInline without the await: process_message is started as a
\* background task and "ok" is answered at once
SendMessageInline_NoAwait ==
    /\ hpc = "http"
    /\ event.http.route = "send_message"
    /\ Deserializable(TRUE, event.http.body)
    /\ queue_url' = ""
    /\ tasks' = SetTask(HandlerTask, NewTask(HttpData))
    /\ sm' = "ok"
    /\ ret' = HttpRet(200, "ok", HttpData.response_uuid)
    /\ hpc' = "done"
    /\ UNCHANGED <<config, idx, mode, outcomes, publishCalls, queue, completions, sessions>>

\* send_message without SQS_QUEUE_URL: await process_message(data) starts
SendMessageInline ==
    /\ hpc = "http"
    /\ event.http.route = "send_message"
    /\ Deserializable(TRUE, event.http.body)
    /\ queue_url' = ""
    /\ tasks' = SetTask(HandlerTask, NewTask(HttpData))
    /\ hpc' = "http_wait"
    /\ UNCHANGED <<config, idx, mode, ret, sm, outcomes, publishCalls, queue, completions, sessions>>

\* SendMessageInlineDone answering with an identifier made up for the
\* response instead of the request's
SendMessageInlineDone_NewUuid ==
    /\ hpc = "http_wait"
    /\ tasks[HandlerTask].pc = "done"
    /\ IF tasks[HandlerTask].result = "returned"
       THEN /\ sm' = "ok"
            /\ ret' = HttpRet(200, "ok", "generated")
       ELSE /\ sm' = "raised"
            /\ ret' = HttpRet(500, "", "")
    /\ hpc' = "done"
    /\ UNCHANGED <<config, queue_url, idx, mode, outcomes, publishCalls, queue, completions, sessions, tasks>>

\* SendMessageInlineDone answering "error" when the exchange's session was
\* marked errored
SendMessageInlineDone_ReportError ==
    /\ hpc = "http_wait"
    /\ tasks[HandlerTask].pc = "done"
    /\ IF tasks[HandlerTask].result = "returned"
       THEN /\ sm' = "ok"
            /\ ret' = HttpRet(200,
                              IF tasks[HandlerTask].sessB # 0 THEN "error" ELSE "ok",
                              tasks[HandlerTask].data.response_uuid)
       ELSE /\ sm' = "raised"
            /\ ret' = HttpRet(500, "", "")
    /\ hpc' = "done"
    /\ UNCHANGED <<config, queue_url, idx, mode, outcomes, publishCalls, queue, completions, sessions, tasks>>

\* await process_message(data) is over: answer "ok", or the framework's 500
\* response when process_message raised.
SendMessageInlineDone ==
    /\ hpc = "http_wait"
    /\ tasks[HandlerTask].pc = "done"
    /\ IF tasks[HandlerTask].result = "returned"
       THEN /\ sm' = "ok"
            /\ ret' = HttpRet(200, "ok", tasks[HandlerTask].data.response_uuid)
       ELSE /\ sm' = "raised"
            /\ ret' = HttpRet(500, "", "")
    /\ hpc' = "done"
    /\ UNCHANGED <<config, queue_url, idx, mode, outcomes, publishCalls, queue, completions, sessions, tasks>>

HandlerNext ==
    \/ HandlerEntry
    \/ BatchRecordFails
    \/ BatchRecordRun
    \/ BatchRecordDone
    \/ BatchReturn
    \/ MangumOther
    \/ SendMessageQueued
    \/ SendMessageInline
    \/ SendMessageInlineDone

Next == HandlerNext \/ PMNext

\* one handler invocation; session calls return
Spec == Init /\ [][Next]_vars
\* one handler invocation; session calls may raise
SpecFaults == InitFaults /\ [][Next]_vars
\* one handler invocation on any envelope; session calls return
SpecEnvelopes == InitEnvelopes /\ [][Next]_vars
\* one process_message invocation; session calls return
SpecPM == InitPM /\ [][PMNext]_vars
\* one process_message invocation; session calls may raise
SpecPMFaults == InitPMFaults /\ [][PMNext]_vars
\* one process_message invocation in a task that can be cancelled; session
\* calls return
SpecPMCancel == InitPM /\ [][PMCancelNext]_vars
\* process_message invocations running concurrently; session calls return
SpecConcurrent == InitConcurrent /\ [][PMNext]_vars

\* ------------------------------------------------------------ observers
\* the operations called on session s, in call order
OpsOf(s) == [i \in 1..Len(sessions[s].calls) |-> sessions[s].calls[i].op]

IsStream(c) == c.op = "stream"
\* the fragments appended to session s, in call order
Appended(s) ==
    LET cs == SelectSeq(sessions[s].calls, IsStream)
    IN [i \in 1..Len(cs) |-> cs[i].arg]

\* how many times op was called on session s (0 stands for no session)
CountOp(s, op) ==
    IF s = 0 THEN 0
    ELSE Cardinality({i \in 1..Len(sessions[s].calls) : sessions[s].calls[i].op = op})

\* the sessions process_message invocation t has opened
OpenedBy(t) == {tasks[t].sessA, tasks[t].sessB} \ {0}
ClosesBy(t) == CountOp(tasks[t].sessA, "close") + CountOp(tasks[t].sessB, "close")
ErrorsBy(t) == CountOp(tasks[t].sessA, "error") + CountOp(tasks[t].sessB, "error")

NonEmpty(d) == d # ""
\* the non-empty fragments of a chunk sequence, in emitted order
Fragments(chunks) ==
    SelectSeq([i \in 1..Len(chunks) |-> IF chunks[i].isNone THEN "" ELSE chunks[i].content],
              NonEmpty)

\* the completion the Completion Source serves to invocation t
Completion(t) == completions[tasks[t].comp]

\* ---------------------------------------------------------------- claims

\* C1: every process_message invocation ends with exactly one terminal
\* session transition in total: one close, or one error followed by one
\* close, whatever the Completion Source does.
C1_OneTerminalTransition ==
    \A t \in Tasks :
       tasks[t].pc = "done" => (ClosesBy(t) = 1 /\ ErrorsBy(t) <= 1)

\* C2: every process_message invocation opens exactly one session
\* (one orca.begin call) on every exit path.
C2_OneSessionOpened ==
    \A t \in Tasks :
       /\ Cardinality(OpenedBy(t)) <= 1
       /\ tasks[t].pc = "done" => Cardinality(OpenedBy(t)) = 1

\* C3: the append calls made on the session of the stream are the non-empty
\* fragments the Completion Source has produced, each once and in emitted
\* order (the one being handed to session.stream is the next to be appended);
\* empty fragments are never appended and no other session gets an append.
C3_AppendsAreNonEmptyFragmentsInOrder ==
    \A t \in Tasks :
       /\ tasks[t].sessA # 0 =>
             IF tasks[t].pc = "A_stream"
             THEN /\ tasks[t].delta # ""
                  /\ Append(Appended(tasks[t].sessA), tasks[t].delta)
                        = Fragments(Completion(t).emitted)
             ELSE Appended(tasks[t].sessA) = Fragments(Completion(t).emitted)
       /\ tasks[t].sessB # 0 => Appended(tasks[t].sessB) = <<>>

\* C3 witness: a stream "a", "", "b" has ended and exactly "a", "b" were appended
C3_Witness ==
    \E t \in Tasks :
       /\ tasks[t].pc = "done"
       /\ tasks[t].sessA # 0
       /\ Completion(t).status = "ended"
       /\ Len(Completion(t).emitted) = 3
       /\ Completion(t).emitted[1] = [isNone |-> FALSE, content |-> "a"]
       /\ Completion(t).emitted[2] = [isNone |-> FALSE, content |-> ""]
       /\ Completion(t).emitted[3] = [isNone |-> FALSE, content |-> "b"]
       /\ Appended(tasks[t].sessA) = <<"a", "b">>

\* the envelope has a non-empty records collection whose first record comes
\* from the queue
QueueTagged == event.Records # <<>> /\ event.Records[1].eventSource = "aws:sqs"
ScheduleTagged == event.source = "aws.events"

\* C4: handler takes exactly one branch, by first match: Queued-Batch iff the
\* first record is an SQS record, otherwise Scheduled iff the source is
\* "aws.events", otherwise HTTP; and it handles the envelope on that branch
\* only (the batch loop runs only for Queued-Batch, Mangum is reached only
\* for HTTP, Scheduled returns the acknowledgment at once).
C4_ClassificationByFirstMatch ==
    hpc \notin {"start", "off"} =>
       /\ mode \in {"sqs", "cron", "http"}
       /\ mode = "sqs" <=> QueueTagged
       /\ mode = "cron" <=> (~QueueTagged /\ ScheduleTagged)
       /\ mode = "http" <=> (~QueueTagged /\ ~ScheduleTagged)
       /\ hpc \in {"batch", "batch_wait"} => mode = "sqs"
       /\ hpc \in {"http", "http_wait"} => mode = "http"
       /\ mode = "sqs" /\ hpc = "done" => Len(outcomes) = Len(event.Records)
       /\ mode = "cron" => hpc = "done" /\ ret = Ack200 /\ outcomes = <<>> /\ sm = "none"
       /\ mode = "http" => outcomes = <<>> /\ (hpc = "done" => ret.kind \in {"http", "raised"})
       /\ mode # "http" => sm = "none" /\ queue_url = "unread"

\* C4 witness: an envelope with an SQS first record and the scheduled source
\* tag has been handled as a batch
C4_Witness ==
    /\ QueueTagged
    /\ ScheduleTagged
    /\ mode = "sqs"
    /\ hpc = "done"
    /\ Len(outcomes) = 1

\* record i of the batch deserializes into a ChatMessage
RecordOk(i) == Deserializable(event.Records[i].hasBody, event.Records[i].body)

\* C5: in a batch, a record that fails (to deserialize, or in process_message)
\* does not stop the loop: the records are handled one after the other, each
\* record that deserializes is passed to process_message and run to its end,
\* and when handler returns every record has been handled.
C5_BatchFailureIsolation ==
    mode = "sqs" =>
       /\ Len(outcomes) = (IF hpc = "done" THEN Len(event.Records) ELSE idx - 1)
       /\ \A i \in 1..Len(outcomes) :
             IF RecordOk(i)
             THEN outcomes[i] \in {"returned", "raised"}
             ELSE outcomes[i] = "deser_error"
       /\ hpc = "batch_wait" =>
             /\ RecordOk(idx)
             /\ tasks[HandlerTask].pc # "idle"
             /\ tasks[HandlerTask].data = ChatMessage(json_loads(event.Records[idx].body))

\* C5 witness: process_message raised for the first record of a batch and the
\* second record was still processed
C5_Witness ==
    /\ mode = "sqs"
    /\ hpc = "done"
    /\ outcomes = <<"raised", "returned">>

\* C6: for a batch, handler returns {"statusCode": 200}, and only once the
\* loop has handled every record, whatever the records' outcomes.
C6_BatchAckAfterIteration ==
    mode = "sqs" =>
       /\ ret \in {NoRet, Ack200}
       /\ ret = Ack200 <=> hpc = "done"
       /\ ret = Ack200 =>
             /\ Len(outcomes) = Len(event.Records)
             /\ tasks[HandlerTask].pc \in {"idle", "done"}

\* C6 witness: every record of a two-record batch failed, one of them in
\* process_message, and handler returned the acknowledgment
C6_Witness ==
    /\ mode = "sqs"
    /\ hpc = "done"
    /\ ret = Ack200
    /\ Len(outcomes) = 2
    /\ \A i \in 1..2 : outcomes[i] # "returned"
    /\ \E i \in 1..2 : outcomes[i] = "raised"

\* C7: with SQS_QUEUE_URL set, send_message publishes the serialized message
\* exactly once, opens no session and requests no completion; when the
\* publish succeeds it answers "queued" with the request's response_uuid, and
\* "queued" is answered in no other case.
C7_QueuedOffload ==
    /\ queue_url = "q1" =>
          /\ Len(publishCalls) = 1
          /\ JsonWellFormed(publishCalls[1])
          /\ ChatMessage(json_loads(publishCalls[1])) = HttpData
          /\ sessions = <<>>
          /\ completions = <<>>
          /\ tasks[HandlerTask].pc = "idle"
          /\ sm \in {"queued", "raised"}
          /\ sm = "queued" =>
                /\ ret = HttpRet(200, "queued", HttpData.response_uuid)
                /\ queue = publishCalls
    /\ (sm = "queued" \/ ret.status = "queued") => queue_url = "q1"

\* C7 witness: a request was queued
C7_Witness ==
    /\ sm = "queued"
    /\ ret.response_uuid = "r2"
    /\ Len(queue) = 1

\* every session opened so far has been closed by its last call
AllSessionsClosed ==
    \A s \in 1..Len(sessions) :
       /\ sessions[s].calls # <<>>
       /\ sessions[s].calls[Len(sessions[s].calls)].op = "close"

C9_FailureResignaled ==
    \A t \in Tasks :
       (/\ tasks[t].pc = "done"
        /\ tasks[t].comp # 0
        /\ Completion(t).status \in {"refused", "failed"})
       => tasks[t].result = "raised"

\* C10: no completion is ever requested without a credential; and when
\* neither the message nor the process configuration has one, the exchange
\* requests no completion and its only session gets error, then close, and
\* no append.
C10_NoCredentialNoRequest ==
    /\ \A i \in 1..Len(completions) : completions[i].api_key # ""
    /\ \A t \in Tasks :
          (/\ tasks[t].pc \notin {"idle", "start"}
           /\ tasks[t].data.api_key = ""
           /\ env_key = "")
          => /\ tasks[t].comp = 0
             /\ tasks[t].sessA = 0
             /\ tasks[t].sessB # 0
             /\ OpsOf(tasks[t].sessB) =
                   (IF tasks[t].pc = "B_error" THEN <<>>
                    ELSE IF tasks[t].pc = "B_close" THEN <<"error">>
                    ELSE <<"error", "close">>)

\* C10 witness: an exchange without any credential is over
C10_Witness ==
    \E t \in Tasks :
       /\ tasks[t].pc = "done"
       /\ tasks[t].data.api_key = ""
       /\ env_key = ""
       /\ OpsOf(tasks[t].sessB) = <<"error", "close">>
       /\ completions = <<>>

\* C11: handler never lets an exception escape: whatever the envelope, a
\* malformed records field and an envelope Mangum cannot read as an HTTP
\* request included, a finished invocation has returned a structured
\* acknowledgment.
C11_HandlerNeverRaises ==
    hpc = "done" => ret.kind \in {"ack", "http"}

\* the last n operations called on session s
LastOps(s, n) ==
    LET ops == OpsOf(s)
    IN IF Len(ops) < n THEN ops ELSE SubSeq(ops, Len(ops) - n + 1, Len(ops))

\* C12: a process_message task that is cancelled mid-stream, after its
\* session was opened, has given that session its terminal transition, error
\* then close, when the task is over.
C12_CancelledSessionTerminated ==
    \A t \in Tasks :
       (/\ tasks[t].pc = "done"
        /\ tasks[t].result = "cancelled"
        /\ tasks[t].sessA # 0)
       => LastOps(tasks[t].sessA, 2) = <<"error", "close">>

\* C13: an envelope tagged "aws.events" that is not a queue batch is a no-op:
\* handler takes the scheduled branch and returns {"statusCode": 200} at
\* once, and no session is opened, no completion requested, nothing
\* published and process_message never started.
C13_ScheduledIsNoOp ==
    /\ (hpc # "start" /\ ScheduleTagged /\ ~QueueTagged) => mode = "cron"
    /\ mode = "cron" =>
          /\ hpc = "done"
          /\ ret = Ack200
          /\ sessions = <<>>
          /\ completions = <<>>
          /\ publishCalls = <<>>
          /\ queue = <<>>
          /\ queue_url = "unread"
          /\ sm = "none"
          /\ outcomes = <<>>
          /\ \A t \in Tasks : tasks[t] = IdleTask

\* C13 witness: a scheduled event that also carries a record from another
\* service was acknowledged
C13_Witness ==
    /\ mode = "cron"
    /\ hpc = "done"
    /\ ret = Ack200
    /\ event.source = "aws.events"
    /\ event.Records # <<>>

\* the queue did not accept a body send_message passed to it
PublishFailed == Len(queue) < Len(publishCalls)

\* C14: when the publish fails, the request is over with an error response,
\* neither "queued" nor "ok"; no session is opened, no completion requested
\* and process_message is not run as a fallback; the publish is not retried.
C14_PublishFailureIsTerminal ==
    PublishFailed =>
       /\ queue_url = "q1"
       /\ hpc = "done"
       /\ ret.kind = "http"
       /\ ret.statusCode >= 400
       /\ ret.status \notin {"queued", "ok"}
       /\ sm = "raised"
       /\ Len(publishCalls) = 1
       /\ queue = <<>>
       /\ sessions = <<>>
       /\ completions = <<>>
       /\ \A t \in Tasks : tasks[t] = IdleTask

\* C14 witness: the publish of a request's message failed and the request
\* was answered
C14_Witness ==
    /\ PublishFailed
    /\ publishCalls = <<model_dump_json([response_uuid |-> "r1", api_key |-> ""])>>
    /\ hpc = "done"
    /\ ret.statusCode = 500

\* C15: on any one session, no call (append, error or close) is made after
\* close has been called on it, on every exit path of process_message, the
\* paths where a session call raises included.
C15_NoCallAfterClose ==
    \A s \in 1..Len(sessions) :
       \A i \in 1..Len(sessions[s].calls) :
          sessions[s].calls[i].op = "close" => i = Len(sessions[s].calls)

IsTerminalCall(c) == c.op # "stream"
\* the error and close calls made on session s, in call order
TerminalOps(s) ==
    LET cs == SelectSeq(sessions[s].calls, IsTerminalCall)
    IN [i \in 1..Len(cs) |-> cs[i].op]

\* the tasks that have opened session s
OwnersOf(s) == {t \in Tasks : s \in OpenedBy(t)}

\* C16: with exchanges of different response_uuids running concurrently,
\* every session belongs to one exchange and carries its response_uuid; the
\* session of an exchange's stream has received exactly the non-empty
\* fragments of that exchange's own completion, in emitted order, and the
\* error and close calls on a session are those its own exchange has made at
\* its position, never another exchange's.
C16_ConcurrentExchangesIsolated ==
    /\ \A s \in 1..Len(sessions) : Cardinality(OwnersOf(s)) = 1
    /\ \A t \in Tasks :
          /\ \A s \in OpenedBy(t) : sessions[s].rid = tasks[t].data.response_uuid
          /\ tasks[t].sessA # 0 =>
                /\ IF tasks[t].pc = "A_stream"
                   THEN Append(Appended(tasks[t].sessA), tasks[t].delta)
                           = Fragments(Completion(t).emitted)
                   ELSE Appended(tasks[t].sessA) = Fragments(Completion(t).emitted)
                /\ TerminalOps(tasks[t].sessA) =
                      (IF tasks[t].pc \in {"streaming", "A_stream", "A_close", "A_error"}
                       THEN <<>>
                       ELSE IF tasks[t].pc = "A_close2" THEN <<"error">>
                       ELSE IF Completion(t).status = "ended" THEN <<"close">>
                       ELSE <<"error", "close">>)
          /\ tasks[t].sessB # 0 =>
                /\ Appended(tasks[t].sessB) = <<>>
                /\ TerminalOps(tasks[t].sessB) =
                      (IF tasks[t].pc = "B_error" THEN <<>>
                       ELSE IF tasks[t].pc = "B_close" THEN <<"error">>
                       ELSE <<"error", "close">>)

\* C16 witness: two exchanges are both in the middle of their streams; the
\* second one's fragment arrived between the two fragments of the first and
\* each session has its own fragments
C16_Witness ==
    /\ tasks[1].pc = "streaming"
    /\ tasks[2].pc = "streaming"
    /\ tasks[1].sessA # 0
    /\ tasks[2].sessA # 0
    /\ Appended(tasks[1].sessA) = <<"f1", "f3">>
    /\ Appended(tasks[2].sessA) = <<"f2">>

\* the ChatMessage the running process_message was given: the body of the
\* HTTP request, or the body of the record the batch loop is at
InboundMessage ==
    IF mode = "http" THEN HttpData ELSE ChatMessage(json_loads(event.Records[idx].body))

\* the acknowledgment and the published bodies carry the request's identifier
C17_AckAndBodyKeepId ==
    /\ ret.status \in {"queued", "ok"} =>
          /\ mode = "http"
          /\ Deserializable(TRUE, event.http.body)
          /\ ret.response_uuid = HttpData.response_uuid
    /\ \A i \in 1..Len(publishCalls) :
          /\ mode = "http"
          /\ Deserializable(TRUE, publishCalls[i])
          /\ ChatMessage(json_loads(publishCalls[i])).response_uuid = HttpData.response_uuid
    /\ \A t \in Tasks :
          tasks[t].pc # "idle" =>
             /\ hpc \in {"batch_wait", "http_wait"} => tasks[t].data = InboundMessage
             /\ \A s \in OpenedBy(t) : sessions[s].rid = tasks[t].data.response_uuid

\* a session is opened for the identifier of the message being processed,
\* and keeps it
C17_SessionKeepsId ==
    /\ Len(sessions') >= Len(sessions)
    /\ \A s \in 1..Len(sessions') :
          IF s <= Len(sessions)
          THEN sessions'[s].rid = sessions[s].rid
          ELSE /\ hpc \in {"batch_wait", "http_wait"}
               /\ sessions'[s].rid = InboundMessage.response_uuid

\* C17: the response correlation identifier is never regenerated or altered:
\* the "queued" or "ok" acknowledgment, the published body and every session
\* opened for an exchange carry the response_uuid of the inbound ChatMessage.
C17_ResponseUuidPreserved ==
    []C17_AckAndBodyKeepId /\ [][C17_SessionKeepsId]_vars

\* C17 witness: an inline request for "r2" was answered "ok" after two
\* sessions were opened for it
C17_Witness ==
    /\ mode = "http"
    /\ ret = HttpRet(200, "ok", "r2")
    /\ Len(sessions) = 2
    /\ \A s \in 1..2 : sessions[s].rid = "r2"

C19_NothingInFlightBetweenRecords ==
    mode = "sqs" =>
       /\ \A t \in Tasks \ {HandlerTask} : tasks[t] = IdleTask
       /\ hpc \in {"batch", "batch_wait"} => Len(outcomes) = idx - 1
       /\ hpc \in {"batch", "done"} =>
             /\ tasks[HandlerTask].pc \in {"idle", "done"}
             /\ AllSessionsClosed
       /\ hpc = "batch_wait" =>
             /\ idx \in 1..Len(event.Records)
             /\ RecordOk(idx)
             /\ tasks[HandlerTask].data = ChatMessage(json_loads(event.Records[idx].body))

\* the loop moves forward one record at a time; process_message is started
\* only for the record the loop is at, when nothing is in flight, and the
\* loop leaves that record only when process_message is over
C19_OneRecordAtATime ==
    mode' = "sqs" =>
       /\ idx' \in {idx, idx + 1}
       /\ (tasks'[HandlerTask].pc = "start" /\ tasks[HandlerTask].pc # "start") =>
             /\ hpc = "batch"
             /\ hpc' = "batch_wait"
             /\ idx' = idx
             /\ tasks[HandlerTask].pc \in {"idle", "done"}
             /\ AllSessionsClosed
       /\ (hpc = "batch_wait" /\ hpc' # "batch_wait") =>
             /\ hpc' = "batch"
             /\ idx' = idx + 1
             /\ tasks[HandlerTask].pc = "done"
             /\ AllSessionsClosed
       /\ hpc = "batch_wait" => idx' = idx \/ hpc' = "batch"

C21_SessionOpenBeforeRequest ==
    \A t \in Tasks :
       tasks[t].pc = "creating" => OpenedBy(t) # {}

\* the records the batch loop has reached that deserialize into a ChatMessage
RecordsStarted ==
    {i \in 1..Len(event.Records) : i <= idx /\ RecordOk(i)}

\* only records that deserialize are passed to process_message, and the
\* sessions and completion requests of a batch are those of such records
C22_OnlyDeserializedRecordsRun ==
    mode = "sqs" =>
       /\ \A i \in 1..Len(outcomes) : ~RecordOk(i) <=> outcomes[i] = "deser_error"
       /\ hpc = "batch_wait" => RecordOk(idx)
       /\ Len(completions) <= Cardinality(RecordsStarted)
       /\ Len(sessions) <= 2 * Cardinality(RecordsStarted)
       /\ \A s \in 1..Len(sessions) :
             \E i \in RecordsStarted :
                sessions[s].rid = ChatMessage(json_loads(event.Records[i].body)).response_uuid

\* the step that handles a record that does not deserialize opens no
\* session, requests no completion, starts no process_message and moves the
\* loop to the next record
C22_SkipStep ==
    (/\ mode = "sqs"
     /\ hpc = "batch"
     /\ idx <= Len(event.Records)
     /\ ~RecordOk(idx))
    => /\ sessions' = sessions
       /\ completions' = completions
       /\ tasks' = tasks
       /\ outcomes' = Append(outcomes, "deser_error")
       /\ idx' = idx + 1
       /\ hpc' = "batch"

\* C22: for a queue record whose body does not deserialize into a
\* ChatMessage (invalid JSON, no body, or no response_uuid), handler opens no
\* session and requests no completion, and goes on with the next record.
C22_BadRecordSkipped ==
    []C22_OnlyDeserializedRecordsRun /\ [][C22_SkipStep]_vars

\* C22 witness: the first record of a batch was processed and its session
\* closed, the second one, with invalid JSON, was skipped, and handler
\* returned the acknowledgment
C22_Witness ==
    /\ mode = "sqs"
    /\ hpc = "done"
    /\ ret = Ack200
    /\ Len(event.Records) = 2
    /\ event.Records[2].hasBody
    /\ event.Records[2].body = <<"{">>
    /\ outcomes = <<"returned", "deser_error">>
    /\ Len(sessions) = 1
    /\ OpsOf(1) = <<"stream", "close">>

\* C23: without SQS_QUEUE_URL, send_message answers "ok" whenever
\* process_message has returned, also when the exchange's session ended with
\* error (no credential, request refused, stream failed); it answers "ok" in
\* no other case and no acknowledgment ever has the status "error".
C23_InlineAlwaysOk ==
    /\ ret.status \in {"", "ok", "queued", "healthy"}
    /\ (hpc = "done" /\ queue_url = "") =>
          /\ tasks[HandlerTask].pc = "done"
          /\ tasks[HandlerTask].result = "returned" =>
                ret = HttpRet(200, "ok", tasks[HandlerTask].data.response_uuid)
          /\ tasks[HandlerTask].result # "returned" => ret.status = ""

\* C23 witness: "ok" was answered for an exchange whose stream failed and
\* whose sessions both got error
C23_Witness ==
    /\ queue_url = ""
    /\ ret.status = "ok"
    /\ tasks[HandlerTask].comp # 0
    /\ Completion(HandlerTask).status = "failed"
    /\ ErrorsBy(HandlerTask) = 2

\* C24: only the first record decides whether the envelope is a batch: when
\* its eventSource is "aws:sqs" every record is deserialized and processed,
\* whatever its own eventSource; when it is not, no record is processed,
\* even if a later record is an SQS record, and the envelope goes on to the
\* scheduled and HTTP checks.
C24_FirstRecordDecides ==
    (hpc # "start" /\ event.Records # <<>>) =>
       IF event.Records[1].eventSource = "aws:sqs"
       THEN /\ mode = "sqs"
            /\ \A i \in 1..Len(outcomes) :
                  IF RecordOk(i)
                  THEN outcomes[i] \in {"returned", "raised"}
                  ELSE outcomes[i] = "deser_error"
            /\ hpc = "batch_wait" =>
                  tasks[HandlerTask].data = ChatMessage(json_loads(event.Records[idx].body))
            /\ hpc = "done" => Len(outcomes) = Len(event.Records)
       ELSE /\ mode = (IF event.source = "aws.events" THEN "cron" ELSE "http")
            /\ hpc \notin {"batch", "batch_wait"}
            /\ idx = 0
            /\ outcomes = <<>>
            /\ \A t \in Tasks : tasks[t] = IdleTask
            /\ sessions = <<>>
            /\ completions = <<>>

\* C24 witness: in a batch whose first record is an SQS record, the second
\* record, which comes from another service, was processed as a queue message
C24_Witness ==
    /\ mode = "sqs"
    /\ hpc = "done"
    /\ Len(event.Records) = 2
    /\ event.Records[1].eventSource = "aws:sqs"
    /\ event.Records[2].eventSource = "other"
    /\ Len(outcomes) = 2
    /\ outcomes[2] = "returned"
    /\ \E s \in 1..Len(sessions) : sessions[s].rid = "r1"

\* the position of the error call on session s (0 when there is none)
ErrorAt(s) ==
    IF \E i \in 1..Len(sessions[s].calls) : sessions[s].calls[i].op = "error"
    THEN CHOOSE i \in 1..Len(sessions[s].calls) : sessions[s].calls[i].op = "error"
    ELSE 0

\* C25: when process_message is over, the session opened in its except
\* branch has received error once and then close once, whether the error
\* call returned or raised; the session opened in _stream_completion, once
\* its except branch is over, has received close after its error call if
\* that call returned, and no call at all after it if it raised.
C25_CloseAfterError ==
    \A t \in Tasks :
       /\ (tasks[t].pc = "done" /\ tasks[t].sessB # 0) =>
             /\ OpsOf(tasks[t].sessB) = <<"error", "close">>
             /\ CountOp(tasks[t].sessB, "close") = 1
       /\ (/\ tasks[t].pc \in {"B_error", "B_close", "done"}
           /\ tasks[t].sessA # 0
           /\ ErrorAt(tasks[t].sessA) # 0) =>
             LET calls == sessions[tasks[t].sessA].calls
                 e == ErrorAt(tasks[t].sessA)
             IN /\ CountOp(tasks[t].sessA, "error") = 1
                /\ IF calls[e].ok
                   THEN Len(calls) = e + 1 /\ calls[e + 1].op = "close"
                   ELSE Len(calls) = e

\* C25 witness: the stream failed and the error call on its session raised:
\* that session was not closed, while the session of the except branch got
\* error and close
C25_Witness ==
    \E t \in Tasks :
       /\ tasks[t].pc = "done"
       /\ tasks[t].sessA # 0
       /\ tasks[t].sessB # 0
       /\ Completion(t).status = "failed"
       /\ OpsOf(tasks[t].sessA) = <<"stream", "error">>
       /\ ~sessions[tasks[t].sessA].calls[2].ok
       /\ OpsOf(tasks[t].sessB) = <<"error", "close">>

====
